---- MODULE Spec2Model ----
(***************************************************************************)
(* graphrs: a directed graph whose vertices live in an ordered index       *)
(* (B-tree), with traversals, topological sort and a path algebra.         *)
(*                                                                         *)
(* Specifications:                                                         *)
(*   Spec       graph construction: add_vertex / add_edge                  *)
(*   SpecTrav   construction, then one depth/breadth-first traversal       *)
(*   SpecTopo   construction, then one topological_sort                    *)
(*   SpecIndex  insertions into the ordered index                          *)
(*   SpecNode   the operations of one index node                           *)
(*   SpecPath   the path algebra: Path +, Paths +, subpath_between         *)
(*   SpecTerm   construction, then one algorithm run step by step, fair    *)
(*   SpecFrom   construction of a wider graph, then one all_paths_from      *)
(***************************************************************************)
EXTENDS Integers, Sequences, FiniteSets, TLC

\* ------------------------------------------------------------- bounds
MaxId == 3

MaxEdges == 3

\* the longest path handed to the path algebra
MaxPathLen == 3

Ids == 1..MaxId

\* payloads of vertices (V) and of edges (E)
VInfos == {"a", "b"}

EInfos == {"x"}

\* ------------------------------------------------------------- values
\* Option<T>: None is the empty sequence, Some(x) the one-element sequence.
None == <<>>

Some(x) == <<x>>

IsSome(o) == Len(o) = 1

Unwrap(o) == o[1]

\* capability markers and the vicinity shape each of them admits
Caps == {"WithOutgoing", "WithIngoing", "WithBoth"}

Shapes == {"Outgoing", "Ingoing", "Both"}

CapShape(c) ==
    CASE c = "WithOutgoing" -> "Outgoing"
      [] c = "WithIngoing" -> "Ingoing"
      [] OTHER -> "Both"

\* Vicinity::Outgoing { edges } / Ingoing { edges } / Both { ingoing_edges, outgoing_edges }
VicOutgoing(edges) == [shape |-> "Outgoing", edges |-> edges]

VicIngoing(edges) == [shape |-> "Ingoing", edges |-> edges]

VicBoth(ingoing, outgoing) ==
    [shape |-> "Both", ingoing_edges |-> ingoing, outgoing_edges |-> outgoing]

\* a mutant: the two vertices are handed to Edge::new the other way round
NewEdgeReversed(info, start, end) == [info |-> info, start |-> end, end |-> start]

\* Edge::new: the payload and the two back-references, held as the ids of the
\* vertices they point to (vertices are never removed from the index).
NewEdge(info, start, end) == [info |-> info, start |-> start, end |-> end]

\* Vertex::new
NewVertex(id, info, vicinity) == [id |-> id, info |-> info, vicinity |-> vicinity]

\* The vicinities a caller passes to add_vertex: every shape, each list either
\* absent or present and empty.
EmptyOpts == {None, Some(<<>>)}

InputVicinities ==
    {VicOutgoing(o) : o \in EmptyOpts} \cup {VicIngoing(o) : o \in EmptyOpts}
        \cup {VicBoth(i, o) : i \in EmptyOpts, o \in EmptyOpts}

\* ------------------------------------------------------------- state
VARIABLES
    cap,        \* the graph's capability marker (a type parameter)
    vertices,   \* the index: id -> vertex, for the ids present
    result,     \* what the last call returned ("Panic": it aborted)
    call,       \* the name of the last operation called
    trav,       \* the running traversal
    topo,       \* the running topological sort
    tree,       \* the ordered index under test (SpecIndex)
    inserted,   \* the keys handed to the index so far (SpecIndex)
    path        \* the last call of the path algebra with its operands (SpecPath)

vars == <<cap, vertices, result, call, trav, topo, tree, inserted, path>>

\* ------------------------------------------------------------- the index, as the graph uses it
\* BTree::contains
contains(vs, id) == id \in DOMAIN vs

\* BTree::search
search(vs, id) ==
    IF id \in DOMAIN vs THEN [ok |-> TRUE, value |-> vs[id]]
    ELSE [ok |-> FALSE, error |-> "KeyWasNotFound"]

\* BTree::insert of a key that is not present
index_insert(vs, id, v) == [k \in DOMAIN vs \cup {id} |-> IF k = id THEN v ELSE vs[k]]

\* ------------------------------------------------------------- add_vertex
\* a mutant: an id that is present is stored again instead of being refused
add_vertex_overwrite(c, vs, id, info, vicinity) ==
    IF vicinity.shape # CapShape(c)
        THEN [vertices |-> vs, result |-> "MismatchedVicinity"]
    ELSE IF contains(vs, id)
        THEN [vertices |-> [vs EXCEPT ![id] = NewVertex(id, info, vicinity)],
              result |-> "VertexAlreadyExists"]
    ELSE [vertices |-> index_insert(vs, id, NewVertex(id, info, vicinity)),
          result |-> "Ok"]

\* a mutant: the shape is not checked
add_vertex_no_shape(c, vs, id, info, vicinity) ==
    IF contains(vs, id) THEN [vertices |-> vs, result |-> "VertexAlreadyExists"]
    ELSE [vertices |-> index_insert(vs, id, NewVertex(id, info, vicinity)),
          result |-> "Ok"]

\* Graph<_,_,_,S>::add_vertex, S being the capability c
add_vertex(c, vs, id, info, vicinity) ==
    IF vicinity.shape # CapShape(c)
        THEN [vertices |-> vs, result |-> "MismatchedVicinity"]
    ELSE IF contains(vs, id)
        THEN [vertices |-> vs, result |-> "VertexAlreadyExists"]
    ELSE [vertices |-> index_insert(vs, id, NewVertex(id, info, vicinity)),
          result |-> "Ok"]

\* ------------------------------------------------------------- add_edge
\* a mutant: the new edge goes to the front of the list
push_edge_front(opt, e) == IF IsSome(opt) THEN Some(<<e>> \o Unwrap(opt)) ELSE Some(<<e>>)

\* match edges { Some(edges) => edges.push(e), None => *edges = Some(vec![e]) }
push_edge(opt, e) == IF IsSome(opt) THEN Some(Append(Unwrap(opt), e)) ELSE Some(<<e>>)

\* a mutant: with two Both vicinities the edge is recorded at its start only
add_edge_match_outgoing_only(vs, info, start, end) ==
    LET sv == vs[start].vicinity
        ev == vs[end].vicinity
        e  == NewEdge(info, start, end)
    IN  IF sv.shape = "Outgoing" /\ ev.shape = "Outgoing" THEN
            [vertices |-> [vs EXCEPT ![start].vicinity.edges = push_edge(@, e)],
             result |-> "Ok"]
        ELSE IF sv.shape = "Ingoing" /\ ev.shape = "Ingoing" THEN
            [vertices |-> [vs EXCEPT ![end].vicinity.edges = push_edge(@, e)],
             result |-> "Ok"]
        ELSE IF sv.shape = "Both" /\ ev.shape = "Both" THEN
            [vertices |-> [vs EXCEPT ![start].vicinity.outgoing_edges = push_edge(@, e)],
             result |-> "Ok"]
        ELSE [vertices |-> vs, result |-> "MismatchedVicinity"]

\* the match on the two vicinities, both vertices being resolved and distinct
add_edge_match(vs, info, start, end) ==
    LET sv == vs[start].vicinity
        ev == vs[end].vicinity
        e  == NewEdge(info, start, end)
    IN  IF sv.shape = "Outgoing" /\ ev.shape = "Outgoing" THEN
            [vertices |-> [vs EXCEPT ![start].vicinity.edges = push_edge(@, e)],
             result |-> "Ok"]
        ELSE IF sv.shape = "Ingoing" /\ ev.shape = "Ingoing" THEN
            [vertices |-> [vs EXCEPT ![end].vicinity.edges = push_edge(@, e)],
             result |-> "Ok"]
        ELSE IF sv.shape = "Both" /\ ev.shape = "Both" THEN
            [vertices |-> [vs EXCEPT ![start].vicinity.outgoing_edges = push_edge(@, e),
                                     ![end].vicinity.ingoing_edges = push_edge(@, e)],
             result |-> "Ok"]
        ELSE [vertices |-> vs, result |-> "MismatchedVicinity"]

\* a mutant: only the start id is looked up before the vertices are resolved
add_edge_start_only(vs, info, start, end) ==
    IF ~contains(vs, start) THEN [vertices |-> vs, result |-> "KeyWasNotFound"]
    ELSE IF ~contains(vs, end) THEN
        [vertices |-> index_insert(vs, end, NewVertex(end, "a", vs[start].vicinity)),
         result |-> "Ok"]
    ELSE IF start = end THEN [vertices |-> vs, result |-> "Panic"]
    ELSE add_edge_match(vs, info, start, end)

\* Graph::add_edge.  start.borrow_mut() and end.borrow_mut() are taken together:
\* when start = end both are the same RefCell and the second borrow panics.
add_edge(vs, info, start, end) ==
    IF ~contains(vs, start) \/ ~contains(vs, end)
        THEN [vertices |-> vs, result |-> "KeyWasNotFound"]
    ELSE IF start = end
        THEN [vertices |-> vs, result |-> "Panic"]
    ELSE add_edge_match(vs, info, start, end)

\* ------------------------------------------------------------- graph queries used by the claims
\* the outgoing list a vertex's traversal reads (empty when absent)
OutList(v) ==
    LET o == IF v.vicinity.shape = "Outgoing" THEN v.vicinity.edges
             ELSE IF v.vicinity.shape = "Both" THEN v.vicinity.outgoing_edges
             ELSE None
    IN  IF IsSome(o) THEN Unwrap(o) ELSE <<>>

InList(v) ==
    LET o == IF v.vicinity.shape = "Ingoing" THEN v.vicinity.edges
             ELSE IF v.vicinity.shape = "Both" THEN v.vicinity.ingoing_edges
             ELSE None
    IN  IF IsSome(o) THEN Unwrap(o) ELSE <<>>

NumEdges(vs) ==
    LET RECURSIVE Sum(_)
        Sum(S) == IF S = {} THEN 0
                  ELSE LET x == CHOOSE y \in S : TRUE
                       IN  Len(OutList(vs[x])) + Len(InList(vs[x])) + Sum(S \ {x})
    IN  Sum(DOMAIN vs)

\* ------------------------------------------------------------- actions: construction
Idle == [pc |-> "idle"]

Running == result # "Panic" /\ trav.pc = "idle" /\ topo.pc = "idle"

AddVertex(id, info, vicinity) ==
    /\ Running
    /\ LET r == add_vertex(cap, vertices, id, info, vicinity)
       IN  /\ vertices' = r.vertices
           /\ result' = r.result
    /\ call' = "add_vertex"
    /\ UNCHANGED <<cap, trav, topo, tree, inserted, path>>

AddEdge(info, start, end) ==
    /\ Running
    /\ NumEdges(vertices) < MaxEdges * (IF cap = "WithBoth" THEN 2 ELSE 1)
    /\ LET r == add_edge(vertices, info, start, end)
       IN  /\ vertices' = r.vertices
           /\ result' = r.result
    /\ call' = "add_edge"
    /\ UNCHANGED <<cap, trav, topo, tree, inserted, path>>

InitGraph ==
    /\ vertices = <<>>
    /\ result = "Ok"
    /\ call = "none"
    /\ trav = Idle
    /\ topo = Idle
    /\ tree = <<>>
    /\ inserted = {}
    /\ path = <<>>

Init ==
    /\ cap \in Caps
    /\ InitGraph

\* Vicinity::X { edges: None }: the vicinity main.rs creates its vertices with
EmptyVicinity(c) ==
    CASE c = "WithOutgoing" -> VicOutgoing(None)
      [] c = "WithIngoing" -> VicIngoing(None)
      [] OTHER -> VicBoth(None, None)

\* the payload main.rs-like callers give a new vertex
FreshInfo == "a"

\* The calls of add_vertex that are made: any id, payload and vicinity, except that
\* a call that stores a new vertex stores it with FreshInfo and no edge list.
AddVertexInput(id, info, vicinity) ==
    (id \notin DOMAIN vertices /\ vicinity.shape = CapShape(cap))
        => (info = FreshInfo /\ vicinity = EmptyVicinity(cap))

Next ==
    \/ \E id \in Ids, info \in VInfos, vicinity \in InputVicinities :
            AddVertexInput(id, info, vicinity) /\ AddVertex(id, info, vicinity)
    \/ \E info \in EInfos, start \in Ids, end \in Ids : AddEdge(info, start, end)

Spec == Init /\ [][Next]_vars

\* ------------------------------------------------------------- claims on construction
\* The claims below are about one call made on a graph the program has built:
\* each is stated for every call that can be made in the current state.

\* C4: add_edge with an id that is absent from the index fails with KeyWasNotFound
\* and leaves the vertex set and every adjacency list as they were.
C4_AddEdgeAbsentId ==
    \A info \in EInfos, start \in Ids, end \in Ids :
        (start \notin DOMAIN vertices \/ end \notin DOMAIN vertices)
        => LET r == add_edge(vertices, info, start, end)
           IN  r.result = "KeyWasNotFound" /\ r.vertices = vertices

\* add_edge has just failed on a graph that holds an edge and lacks an id
C4_Witness ==
    /\ call = "add_edge"
    /\ result = "KeyWasNotFound"
    /\ NumEdges(vertices) > 0
    /\ DOMAIN vertices # Ids

\* what a successful add_edge(info, start, end) does to the index vs, giving ws
EdgeAppended(c, vs, ws, info, start, end) ==
    LET e == NewEdge(info, start, end)
    IN  /\ DOMAIN ws = DOMAIN vs
        /\ \A id \in DOMAIN vs :
            /\ ws[id].id = vs[id].id
            /\ ws[id].info = vs[id].info
            /\ ws[id].vicinity.shape = vs[id].vicinity.shape
            /\ OutList(ws[id]) =
                    IF id = start /\ c \in {"WithOutgoing", "WithBoth"}
                        THEN Append(OutList(vs[id]), e) ELSE OutList(vs[id])
            /\ InList(ws[id]) =
                    IF id = end /\ c \in {"WithIngoing", "WithBoth"}
                        THEN Append(InList(vs[id]), e) ELSE InList(vs[id])

\* C5 (as claimed): add_edge between two ids that are present, start = end
\* included, returns a value, and when that value is Ok the edge was appended.
C5_AddEdgePresentIdsReturns ==
    \A info \in EInfos, start \in DOMAIN vertices, end \in DOMAIN vertices :
        LET r == add_edge(vertices, info, start, end)
        IN  /\ r.result # "Panic"
            /\ r.result = "Ok" => EdgeAppended(cap, vertices, r.vertices, info, start, end)

\* C6: add_vertex with a vicinity of another shape than the capability's fails
\* with MismatchedVicinity and leaves the graph as it was, for every capability.
C6_AddVertexMismatchedVicinity ==
    \A id \in Ids, info \in VInfos, vicinity \in InputVicinities :
        vicinity.shape # CapShape(cap)
        => LET r == add_vertex(cap, vertices, id, info, vicinity)
           IN  r.result = "MismatchedVicinity" /\ r.vertices = vertices

\* add_vertex has just been refused for its shape, in a graph that tracks ingoing
\* edges only and holds an edge
C6_Witness ==
    /\ call = "add_vertex"
    /\ result = "MismatchedVicinity"
    /\ cap = "WithIngoing"
    /\ NumEdges(vertices) > 0

\* C7 (as claimed): add_vertex with an id that is present fails with
\* VertexAlreadyExists whatever the payload and the vicinity, graph unchanged.
C7_ReAddAlwaysVertexAlreadyExists ==
    \A id \in DOMAIN vertices, info \in VInfos, vicinity \in InputVicinities :
        LET r == add_vertex(cap, vertices, id, info, vicinity)
        IN  r.result = "VertexAlreadyExists" /\ r.vertices = vertices

\* C7 (amended): add_vertex with an id that is present leaves the graph unchanged;
\* it fails with VertexAlreadyExists when the vicinity has the capability's shape,
\* whatever the payload, and with MismatchedVicinity when it has another shape.
C7_ReAddFails ==
    \A id \in DOMAIN vertices, info \in VInfos, vicinity \in InputVicinities :
        LET r == add_vertex(cap, vertices, id, info, vicinity)
        IN  /\ r.vertices = vertices
            /\ r.result = IF vicinity.shape = CapShape(cap)
                              THEN "VertexAlreadyExists" ELSE "MismatchedVicinity"

\* add_vertex has just been refused for an id that is present and has an edge
C7_Witness ==
    /\ call = "add_vertex"
    /\ result = "VertexAlreadyExists"
    /\ NumEdges(vertices) > 0

\* C8: a successful add_edge appends one record start->end at the end of the
\* list(s) the capability tracks and changes nothing else.
C8_AddEdgeAppends ==
    \A info \in EInfos, start \in Ids, end \in Ids :
        LET r == add_edge(vertices, info, start, end)
        IN  r.result = "Ok" => EdgeAppended(cap, vertices, r.vertices, info, start, end)

\* add_edge has just succeeded and some list holds two edges that differ
C8_Witness ==
    /\ call = "add_edge"
    /\ result = "Ok"
    /\ \E id \in DOMAIN vertices :
        \/ Len(OutList(vertices[id])) = 2
            /\ OutList(vertices[id])[1].end # OutList(vertices[id])[2].end
        \/ Len(InList(vertices[id])) = 2
            /\ InList(vertices[id])[1].start # InList(vertices[id])[2].start

\* ------------------------------------------------------------- traversals
\* the ids reachable from v along the outgoing lists, v included
Reachable(vs, v) ==
    LET Succ(S) == S \cup {e.end : e \in UNION {{OutList(vs[u])[i] : i \in 1..Len(OutList(vs[u]))}
                                                : u \in S \cap DOMAIN vs}}
        RECURSIVE Close(_)
        Close(S) == IF Succ(S) = S THEN S ELSE Close(Succ(S))
    IN  Close({v})

\* if let Vicinity::Outgoing { edges: Some(edges) } = vertex.vicinity   (with_outgoing.rs)
\* if let Vicinity::Both { outgoing_edges: Some(edges), .. } = vertex.vicinity   (with_both.rs)
\* the list the loop walks, empty when the pattern does not match
traversal_edges(c, v) ==
    IF c = "WithOutgoing" THEN
        IF v.vicinity.shape = "Outgoing" /\ IsSome(v.vicinity.edges)
            THEN Unwrap(v.vicinity.edges) ELSE <<>>
    ELSE
        IF v.vicinity.shape = "Both" /\ IsSome(v.vicinity.outgoing_edges)
            THEN Unwrap(v.vicinity.outgoing_edges) ELSE <<>>

\* edge.end.0.upgrade(): the vertex an edge ends at, NullPointer when it is gone
upgrade(vs, id) ==
    IF id \in DOMAIN vs THEN [ok |-> TRUE, value |-> vs[id]]
    ELSE [ok |-> FALSE, error |-> "NullPointer"]

\* a mutant: the last edge of the list is left out
pushed_ids_but_last(edges) == [i \in 1..(Len(edges) - 1) |-> edges[i].end]

\* the ids the for loop pushes, in list order
pushed_ids(edges) == [i \in 1..Len(edges) |-> edges[i].end]

SeqContains(s, x) == \E i \in 1..Len(s) : s[i] = x

\* a mutant: the breadth-first walks take the newest entry of the queue too
pop_back_always(kind, frontier) ==
    [id |-> frontier[Len(frontier)], rest |-> SubSeq(frontier, 1, Len(frontier) - 1)]

\* stack.pop_back() for the depth-first walks, queue.pop_front() for the breadth-first ones
pop(kind, frontier) ==
    IF kind = "dfs"
        THEN [id |-> frontier[Len(frontier)], rest |-> SubSeq(frontier, 1, Len(frontier) - 1)]
        ELSE [id |-> frontier[1], rest |-> SubSeq(frontier, 2, Len(frontier))]

\* one iteration of the while loop of depth_first_traversal / breadth_first_traversal
\* (and of their _mut variants): the traversal record after it
traversal_iteration(c, vs, t) ==
    LET p == pop(t.kind, t.frontier)
    IN  IF SeqContains(t.discovered, p.id) THEN [t EXCEPT !.frontier = p.rest]
        ELSE LET f == search(vs, p.id)
             IN  IF ~f.ok THEN [t EXCEPT !.pc = "done", !.result = f.error]
                 ELSE LET edges == traversal_edges(c, f.value)
                          dangling == \E i \in 1..Len(edges) : ~upgrade(vs, edges[i].end).ok
                      IN  IF dangling
                            THEN [t EXCEPT !.pc = "done", !.result = "NullPointer"]
                            ELSE [t EXCEPT !.discovered = Append(@, p.id),
                                           !.acc = @ \o <<p.id>>,
                                           !.frontier = p.rest \o pushed_ids(edges)]

\* the while loop, run until the frontier is empty (Ok(acc)) or an error returns
RECURSIVE traversal_loop(_, _, _)
traversal_loop(c, vs, t) ==
    IF t.pc = "done" THEN t
    ELSE IF t.frontier = <<>> THEN [t EXCEPT !.pc = "done", !.result = "Ok"]
    ELSE traversal_loop(c, vs, [traversal_iteration(c, vs, t) EXCEPT !.iterations = @ + 1])

\* depth_first_traversal / breadth_first_traversal (kind) from initial_id, with an
\* empty accumulator and the per-vertex function that gives the vertex's id as a
\* one-element list, so that acc lists the vertices the function was applied to
traversal(c, vs, kind, initial_id) ==
    traversal_loop(c, vs, [pc |-> "run", kind |-> kind, start |-> initial_id,
                           frontier |-> <<initial_id>>, discovered |-> <<>>,
                           acc |-> <<>>, iterations |-> 0, result |-> "none"])

TravKinds == {"dfs", "bfs"}

\* the payload the per-vertex function of a _mut walk leaves in the vertex
Visited == "v"

\* the index after a _mut walk whose function was applied to the vertices of acc
mark_visited(vs, acc) ==
    [id \in DOMAIN vs |-> IF SeqContains(acc, id) THEN [vs[id] EXCEPT !.info = Visited]
                          ELSE vs[id]]

\* one call of depth_first_traversal, breadth_first_traversal or of their _mut variants
Traverse(kind, mutable, initial_id) ==
    /\ Running
    /\ cap \in {"WithOutgoing", "WithBoth"}
    /\ LET t == traversal(cap, vertices, kind, initial_id)
       IN  /\ trav' = [t EXCEPT !.pc = "done"] @@ [mutable |-> mutable, graph |-> vertices]
           /\ vertices' = IF mutable THEN mark_visited(vertices, t.acc) ELSE vertices
           /\ result' = t.result
    /\ call' = "traversal"
    /\ UNCHANGED <<cap, topo, tree, inserted, path>>

InitTrav ==
    /\ cap \in {"WithOutgoing", "WithBoth"}
    /\ InitGraph

NextTrav ==
    \/ \E id \in Ids : AddVertex(id, FreshInfo, EmptyVicinity(cap))
    \/ \E info \in EInfos, start \in Ids, end \in Ids : AddEdge(info, start, end)
    \/ \E kind \in TravKinds, mutable \in BOOLEAN, id \in Ids : Traverse(kind, mutable, id)

SpecTrav == InitTrav /\ [][NextTrav]_vars

\* how many times x occurs in s
Count(s, x) == Cardinality({i \in 1..Len(s) : s[i] = x})

\* C1: a traversal (depth- or breadth-first, mutable or not, WithOutgoing or
\* WithBoth) from a vertex that is present returns Ok, having applied the
\* per-vertex function once to every vertex reachable from it and to no other.
C1_TraversalCoverage ==
    (trav.pc = "done" /\ trav.start \in DOMAIN vertices)
    => /\ trav.result = "Ok"
       /\ \A id \in Ids :
            Count(trav.acc, id) = IF id \in Reachable(vertices, trav.start) THEN 1 ELSE 0

\* a walk is done that met an already discovered vertex again and left a vertex
\* of the graph unvisited
C1_Witness ==
    /\ trav.pc = "done"
    /\ trav.start \in DOMAIN vertices
    /\ Len(trav.acc) >= 2
    /\ trav.iterations > Len(trav.acc)
    /\ \E id \in DOMAIN vertices : id \notin Reachable(vertices, trav.start)

\* the number of edges of a shortest walk from s to v along the outgoing lists
\* (v is reachable from s)
Dist(vs, s, v) ==
    LET Succ(S) == S \cup {e.end : e \in UNION {{OutList(vs[u])[i] : i \in 1..Len(OutList(vs[u]))}
                                                : u \in S \cap DOMAIN vs}}
        RECURSIVE Layer(_, _)
        Layer(S, d) == IF v \in S THEN d ELSE Layer(Succ(S), d + 1)
    IN  Layer({s}, 0)

\* the place of the first occurrence of x in s, Len(s) + 1 when there is none
FirstIndex(s, x) ==
    IF SeqContains(s, x) THEN CHOOSE i \in 1..Len(s) : s[i] = x /\ \A j \in 1..(i - 1) : s[j] # x
    ELSE Len(s) + 1

\* the vertex w was first reached from: the earliest visited vertex with an edge to w
FirstReachedFrom(vs, acc, w) ==
    acc[CHOOSE i \in 1..Len(acc) :
            /\ SeqContains(pushed_ids(OutList(vs[acc[i]])), w)
            /\ \A j \in 1..(i - 1) : ~SeqContains(pushed_ids(OutList(vs[acc[j]])), w)]

\* C12: a breadth-first traversal visits the vertices in non-decreasing order of
\* their edge distance from the start, and the vertices first reached from the
\* same vertex in the order in which that vertex's outgoing list names them.
C12_BreadthFirstOrder ==
    (trav.pc = "done" /\ trav.kind = "bfs" /\ trav.start \in DOMAIN trav.graph)
    => LET vs  == trav.graph
           acc == trav.acc
       IN  /\ trav.result = "Ok"
           /\ Len(acc) >= 1 /\ acc[1] = trav.start
           /\ \A i, j \in 1..Len(acc) :
                i < j => Dist(vs, trav.start, acc[i]) <= Dist(vs, trav.start, acc[j])
           /\ \A i, j \in 2..Len(acc) :
                LET u == FirstReachedFrom(vs, acc, acc[i])
                    l == pushed_ids(OutList(vs[u]))
                IN  (u = FirstReachedFrom(vs, acc, acc[j])
                        /\ FirstIndex(l, acc[i]) < FirstIndex(l, acc[j])) => i < j

\* a breadth-first walk is done on edges A->B, B->C, A->C added in that order (it
\* visited A, B, C), or on a start whose list names the larger id first
C12_Witness ==
    /\ trav.pc = "done" /\ trav.kind = "bfs" /\ trav.start \in DOMAIN trav.graph
    /\ Len(trav.acc) = 3
    /\ LET l == pushed_ids(OutList(trav.graph[trav.start]))
       IN  /\ Len(l) = 2
           /\ l = <<trav.acc[2], trav.acc[3]>>
           /\ pushed_ids(OutList(trav.graph[trav.acc[2]])) = <<trav.acc[3]>>

\* ------------------------------------------------------------- topological sort
\* Mark<Id>
Mark(m, id) == [mark |-> m, id |-> id]

\* all_marks_are_permanent
all_marks_are_permanent(marks) == \A i \in 1..Len(marks) : marks[i].mark = "Permanent"

\* first_unmarked: the id of the first Unmarked mark; it panics when there is none
first_unmarked(marks) ==
    IF \E i \in 1..Len(marks) : marks[i].mark = "Unmarked"
        THEN Some(marks[CHOOSE i \in 1..Len(marks) :
                            /\ marks[i].mark = "Unmarked"
                            /\ \A j \in 1..(i - 1) : marks[j].mark # "Unmarked"].id)
        ELSE None

\* the position visit_node finds for v_id: the last mark carrying it, or
\* marks.len() when no mark does
mark_pos(marks, v_id) ==
    IF \E i \in 1..Len(marks) : marks[i].id = v_id
        THEN CHOOSE i \in 1..Len(marks) :
                /\ marks[i].id = v_id
                /\ \A j \in (i + 1)..Len(marks) : marks[j].id # v_id
        ELSE Len(marks) + 1

\* a mutant: the id goes to the back of the result
push_back_instead(deps, id) == Append(deps, id)

\* dependencies.push_front(id)
push_front(deps, id) == <<id>> \o deps

\* a mutant: a vertex met again while Temporary is taken as done
visit_node_enter_no_cycle_check(t, v) ==
    LET pos   == mark_pos(t.marks, v.id)
        marks == IF pos = Len(t.marks) + 1 THEN Append(t.marks, Mark("Unmarked", v.id))
                 ELSE t.marks
    IN  IF marks[pos].mark \in {"Permanent", "Temporary"} THEN [t EXCEPT !.marks = marks]
        ELSE IF v.vicinity.shape = "Outgoing" /\ IsSome(v.vicinity.edges) THEN
            [t EXCEPT !.marks = [marks EXCEPT ![pos] = Mark("Temporary", v.id)],
                      !.stack = Append(@, [id |-> v.id, pos |-> pos, next |-> 1])]
        ELSE IF v.vicinity.shape = "Outgoing" THEN
            [t EXCEPT !.marks = [marks EXCEPT ![pos] = Mark("Permanent", v.id)],
                      !.dependencies = push_front(@, v.id)]
        ELSE [t EXCEPT !.marks = marks, !.pc = "done", !.result = "MismatchedVicinity"]

\* visit_node(v) from its entry to its first recursive call or to its return:
\* the sort's record after it.  A frame is pushed when the for loop is entered.
visit_node_enter(t, v) ==
    LET pos   == mark_pos(t.marks, v.id)
        marks == IF pos = Len(t.marks) + 1 THEN Append(t.marks, Mark("Unmarked", v.id))
                 ELSE t.marks
    IN  IF marks[pos].mark = "Permanent" THEN [t EXCEPT !.marks = marks]
        ELSE IF marks[pos].mark = "Temporary" THEN
            [t EXCEPT !.marks = marks, !.pc = "done", !.result = "Graph contains cycle"]
        ELSE IF v.vicinity.shape = "Outgoing" /\ IsSome(v.vicinity.edges) THEN
            [t EXCEPT !.marks = [marks EXCEPT ![pos] = Mark("Temporary", v.id)],
                      !.stack = Append(@, [id |-> v.id, pos |-> pos, next |-> 1])]
        ELSE IF v.vicinity.shape = "Outgoing" THEN
            [t EXCEPT !.marks = [marks EXCEPT ![pos] = Mark("Permanent", v.id)],
                      !.dependencies = push_front(@, v.id)]
        ELSE [t EXCEPT !.marks = marks, !.pc = "done", !.result = "MismatchedVicinity"]

\* the for loop of the visit_node on top of the stack takes its next edge:
\* the end vertex is resolved and visited
visit_node_edge(vs, t) ==
    LET top   == t.stack[Len(t.stack)]
        edges == Unwrap(vs[top.id].vicinity.edges)
        u     == upgrade(vs, edges[top.next].end)
        t1    == [t EXCEPT !.stack[Len(t.stack)].next = @ + 1]
    IN  IF ~u.ok THEN [t EXCEPT !.pc = "done", !.result = u.error]
        ELSE visit_node_enter(t1, u.value)

\* a mutant: the vertex is put in the result but its mark goes back to Unmarked
visit_node_exit_unmarks(t) ==
    LET top == t.stack[Len(t.stack)]
    IN  [t EXCEPT !.marks[top.pos] = Mark("Unmarked", top.id),
                  !.dependencies = push_front(@, top.id),
                  !.stack = SubSeq(@, 1, Len(@) - 1)]

\* the for loop of the visit_node on top of the stack is over:
\* marks[pos] = Permanent, push_front, return
visit_node_exit(t) ==
    LET top == t.stack[Len(t.stack)]
    IN  [t EXCEPT !.marks[top.pos] = Mark("Permanent", top.id),
                  !.dependencies = push_front(@, top.id),
                  !.stack = SubSeq(@, 1, Len(@) - 1)]

\* one turn of the while loop of topological_sort, no visit_node being active
topological_sort_turn(vs, t) ==
    IF all_marks_are_permanent(t.marks) THEN [t EXCEPT !.pc = "done", !.result = "Ok"]
    ELSE LET u == first_unmarked(t.marks)
         IN  IF ~IsSome(u) THEN [t EXCEPT !.pc = "done", !.result = "Panic"]
             ELSE LET f == search(vs, Unwrap(u))
                  IN  IF ~f.ok THEN [t EXCEPT !.pc = "done", !.result = f.error]
                      ELSE visit_node_enter(t, f.value)

\* what topological_sort hands back: Ok(dependencies) or an error without them
Returned(t) == IF t.result = "Ok" THEN Some(t.dependencies) ELSE None

\* topological_sort(start_id) is called
TopoStart(start_id) ==
    /\ Running
    /\ cap = "WithOutgoing"
    /\ topo' = [pc |-> "run", start |-> start_id,
                marks |-> <<Mark("Unmarked", start_id)>>, dependencies |-> <<>>,
                stack |-> <<>>, result |-> "none"]
    /\ call' = "topological_sort"
    /\ UNCHANGED <<cap, vertices, result, trav, tree, inserted, path>>

TopoSet(t) ==
    /\ topo' = t
    /\ result' = IF t.pc = "done" THEN t.result ELSE result
    /\ UNCHANGED <<cap, vertices, call, trav, tree, inserted, path>>

TopoTurn ==
    /\ topo.pc = "run"
    /\ topo.stack = <<>>
    /\ TopoSet(topological_sort_turn(vertices, topo))

TopoVisitEdge ==
    /\ topo.pc = "run"
    /\ topo.stack # <<>>
    /\ LET top == topo.stack[Len(topo.stack)]
       IN  top.next <= Len(Unwrap(vertices[top.id].vicinity.edges))
    /\ TopoSet(visit_node_edge(vertices, topo))

TopoExitNode ==
    /\ topo.pc = "run"
    /\ topo.stack # <<>>
    /\ LET top == topo.stack[Len(topo.stack)]
       IN  top.next > Len(Unwrap(vertices[top.id].vicinity.edges))
    /\ TopoSet(visit_node_exit(topo))

InitTopo ==
    /\ cap = "WithOutgoing"
    /\ InitGraph

NextTopo ==
    \/ \E id \in Ids : AddVertex(id, FreshInfo, EmptyVicinity(cap))
    \/ \E info \in EInfos, start \in Ids, end \in Ids : AddEdge(info, start, end)
    \/ \E id \in Ids : TopoStart(id)
    \/ TopoTurn
    \/ TopoVisitEdge
    \/ TopoExitNode

SpecTopo == InitTopo /\ [][NextTopo]_vars

\* the ids reachable from v by at least one edge
ReachablePlus(vs, v) ==
    UNION {Reachable(vs, OutList(vs[v])[i].end) : i \in 1..Len(OutList(vs[v]))}

\* a directed cycle can be reached from v
CycleReachable(vs, v) ==
    \E u \in Reachable(vs, v) \cap DOMAIN vs : u \in ReachablePlus(vs, u)

\* the position of x in s
IndexOf(s, x) == CHOOSE i \in 1..Len(s) : s[i] = x

\* C2: when start_id is a vertex from which no directed cycle can be reached,
\* topological_sort succeeds and returns every vertex reachable from start_id
\* once, the start of every edge between them before its end.
C2_TopologicalOrder ==
    (topo.pc = "done" /\ topo.start \in DOMAIN vertices
        /\ ~CycleReachable(vertices, topo.start))
    => /\ IsSome(Returned(topo))
       /\ LET order == Unwrap(Returned(topo))
              R     == Reachable(vertices, topo.start)
          IN  /\ \A id \in Ids : Count(order, id) = IF id \in R THEN 1 ELSE 0
              /\ \A u \in R : \A i \in 1..Len(OutList(vertices[u])) :
                    IndexOf(order, u) < IndexOf(order, OutList(vertices[u])[i].end)

\* a sort is done on three vertices joined by three edges, one of them reached
\* along two different edges
C2_Witness ==
    /\ topo.pc = "done"
    /\ topo.result = "Ok"
    /\ Len(topo.dependencies) = 3
    /\ NumEdges(vertices) = 3
    /\ \E u \in DOMAIN vertices : Len(OutList(vertices[u])) = 2

\* C3: topological_sort fails with "Graph contains cycle" exactly when a directed
\* cycle can be reached from start_id, and it then returns no order.
C3_CycleDetected ==
    topo.pc = "done"
    => /\ (topo.result = "Graph contains cycle") <=> CycleReachable(vertices, topo.start)
       /\ topo.result = "Graph contains cycle" => Returned(topo) = None

\* a sort has failed on a cycle after it had already put a vertex in the order
C3_Witness ==
    /\ topo.pc = "done"
    /\ topo.result = "Graph contains cycle"
    /\ topo.dependencies # <<>>

\* ------------------------------------------------------------- the ordered index
\* the tree's minimum degree t
T == 2

MaxKey == 10

Keys == 1..MaxKey

\* the value stored with key k
ValueOf(k) == <<"value", k>>

\* KeyValue
KeyValue(k, v) == [key |-> k, value |-> v]

\* NodeType::Leaf / NodeType::Internal / NodeType::Undefined
Leaf(pairs) == [type |-> "Leaf", pairs |-> pairs]

Internal(pairs, children) == [type |-> "Internal", pairs |-> pairs, children |-> children]

Undefined == [type |-> "Undefined"]

\* Vec::insert(index, x), index counted from 0
VecInsert(s, index, x) == SubSeq(s, 1, index) \o <<x>> \o SubSeq(s, index + 1, Len(s))

\* a mutant: the pair goes after the first entry whose key is smaller
into_vec_pos_first(res, key) ==
    LET smaller == {i \in 1..Len(res) : key > res[i][1]}
    IN  IF smaller = {} THEN 0 ELSE CHOOSE i \in smaller : \A j \in smaller : j >= i

\* the loop of into_vec that places one of the node's own pairs: after the last
\* entry whose key is smaller, at the front when there is none
into_vec_pos(res, key) ==
    LET smaller == {i \in 1..Len(res) : key > res[i][1]}
    IN  IF smaller = {} THEN 0 ELSE CHOOSE i \in smaller : \A j \in smaller : j <= i

RECURSIVE into_vec(_)
\* Node::into_vec: the children's exports one after the other, then every pair of
\* the node put in by key; a leaf gives its pairs; Undefined panics
into_vec(node) ==
    IF node.type = "Leaf" THEN [i \in 1..Len(node.pairs) |->
                                    <<node.pairs[i].key, node.pairs[i].value>>]
    ELSE IF node.type = "Internal" THEN
        LET RECURSIVE Concat(_)
            Concat(i) == IF i = 0 THEN <<>>
                         ELSE Concat(i - 1) \o into_vec(node.children[i])
            RECURSIVE Place(_, _)
            Place(res, i) ==
                IF i > Len(node.pairs) THEN res
                ELSE Place(VecInsert(res, into_vec_pos(res, node.pairs[i].key),
                                     <<node.pairs[i].key, node.pairs[i].value>>), i + 1)
        IN  Place(Concat(Len(node.children)), 1)
    ELSE <<"Panic">>

\* a mutant: the children are cut one place too far to the right
split_children_at(t) == t + 1

\* children.split_off(t)
split_children_off(t) == t

\* Node::split(t): the median pair, the new sibling and the node as it is left.
\* split_off and remove panic when their index is out of range.
split(node, t) ==
    IF node.type = "Internal" THEN
        IF t - 1 >= Len(node.pairs) \/ split_children_off(t) > Len(node.children)
            THEN [result |-> "Panic"]
        ELSE LET sibling_pairs == SubSeq(node.pairs, t, Len(node.pairs))
                 at == split_children_off(t)
             IN  [result |-> "Ok",
                  pair |-> Head(sibling_pairs),
                  new_node |-> Internal(Tail(sibling_pairs),
                                        SubSeq(node.children, at + 1, Len(node.children))),
                  node |-> Internal(SubSeq(node.pairs, 1, t - 1),
                                    SubSeq(node.children, 1, at))]
    ELSE IF node.type = "Leaf" THEN
        IF t > Len(node.pairs) THEN [result |-> "Panic"]
        ELSE [result |-> "Ok",
              pair |-> node.pairs[t],
              new_node |-> Leaf(SubSeq(node.pairs, t + 1, Len(node.pairs))),
              node |-> Leaf(SubSeq(node.pairs, 1, t - 1))]
    ELSE [result |-> "UnexpectedError"]

\* a mutant: a node counts as full one pair later
is_full_late(node, t) ==
    IF node.type = "Undefined" THEN [result |-> "UnexpectedError"]
    ELSE [result |-> "Ok", value |-> Len(node.pairs) > 2 * t - 1]

\* Node::is_full(t)
is_full(node, t) ==
    IF node.type = "Undefined" THEN [result |-> "UnexpectedError"]
    ELSE [result |-> "Ok", value |-> Len(node.pairs) >= 2 * t - 1]

\* a mutant: the search never finds the key
binary_search_never_found(pairs, key) ==
    [found |-> FALSE,
     index |-> Cardinality({i \in 1..Len(pairs) : pairs[i].key < key})]

\* pairs.binary_search_by(..) on pairs sorted by key: Ok when the key is found,
\* otherwise the number of smaller keys
binary_search(pairs, key) ==
    IF \E i \in 1..Len(pairs) : pairs[i].key = key THEN [found |-> TRUE]
    ELSE [found |-> FALSE,
          index |-> Cardinality({i \in 1..Len(pairs) : pairs[i].key < key})]

\* a mutant: the child goes in at the pair's own index
node_insert_child_left(node, pair, child) ==
    IF node.type # "Internal" THEN [result |-> "UnexpectedError", node |-> node]
    ELSE LET b == binary_search(node.pairs, pair.key)
         IN  IF b.found THEN [result |-> "KeyAlreadyExists", node |-> node]
             ELSE [result |-> "Ok",
                   node |-> Internal(VecInsert(node.pairs, b.index, pair),
                                     VecInsert(node.children, b.index, child))]

\* Node::insert(pair, child): a promoted pair and the sibling to its right
node_insert(node, pair, child) ==
    IF node.type # "Internal" THEN [result |-> "UnexpectedError", node |-> node]
    ELSE LET b == binary_search(node.pairs, pair.key)
         IN  IF b.found THEN [result |-> "KeyAlreadyExists", node |-> node]
             ELSE [result |-> "Ok",
                   node |-> Internal(VecInsert(node.pairs, b.index, pair),
                                     VecInsert(node.children, b.index + 1, child))]

\* the pair put into a leaf's pairs at its place by key
leaf_insert(node, kv) ==
    Leaf(VecInsert(node.pairs, binary_search(node.pairs, kv.key).index, kv))

RECURSIVE tree_insert(_, _, _)
\* The descent of BTree::insert below one node: the child whose key range holds
\* the key is entered; a full leaf is split before it takes the pair; a split
\* below hands its median and sibling to the parent (Node::insert), which is
\* split first when it is full itself.  The result carries the node as it is
\* left and the split to hand up, if any.
tree_insert(node, kv, t) ==
    IF node.type = "Undefined" THEN [result |-> "UnexpectedError", node |-> node, up |-> None]
    ELSE IF binary_search(node.pairs, kv.key).found
        THEN [result |-> "KeyAlreadyExists", node |-> node, up |-> None]
    ELSE IF node.type = "Leaf" THEN
        IF is_full(node, t).value THEN
            LET s == split(node, t)
            IN  IF kv.key < s.pair.key
                    THEN [result |-> "Ok", node |-> leaf_insert(s.node, kv),
                          up |-> Some([pair |-> s.pair, new_node |-> s.new_node])]
                    ELSE [result |-> "Ok", node |-> s.node,
                          up |-> Some([pair |-> s.pair,
                                       new_node |-> leaf_insert(s.new_node, kv)])]
        ELSE [result |-> "Ok", node |-> leaf_insert(node, kv), up |-> None]
    ELSE
        LET at == binary_search(node.pairs, kv.key).index + 1
            r  == tree_insert(node.children[at], kv, t)
            n1 == [node EXCEPT !.children[at] = r.node]
        IN  IF r.result # "Ok" THEN [result |-> r.result, node |-> node, up |-> None]
            ELSE IF ~IsSome(r.up) THEN [result |-> "Ok", node |-> n1, up |-> None]
            ELSE LET u == Unwrap(r.up)
                 IN  IF is_full(n1, t).value THEN
                        LET s == split(n1, t)
                        IN  IF u.pair.key < s.pair.key
                            THEN [result |-> "Ok",
                                  node |-> node_insert(s.node, u.pair, u.new_node).node,
                                  up |-> Some([pair |-> s.pair, new_node |-> s.new_node])]
                            ELSE [result |-> "Ok", node |-> s.node,
                                  up |-> Some([pair |-> s.pair,
                                       new_node |-> node_insert(s.new_node, u.pair,
                                                                u.new_node).node])]
                     ELSE [result |-> "Ok",
                           node |-> node_insert(n1, u.pair, u.new_node).node,
                           up |-> None]

\* BTree::insert(key, value): a split of the root gives a new root above it
btree_insert(root, key, value, t) ==
    LET r == tree_insert(root, KeyValue(key, value), t)
    IN  IF r.result # "Ok" THEN [result |-> r.result, root |-> root]
        ELSE IF IsSome(r.up)
            THEN [result |-> "Ok",
                  root |-> Internal(<<Unwrap(r.up).pair>>, <<r.node, Unwrap(r.up).new_node>>)]
            ELSE [result |-> "Ok", root |-> r.node]

\* BTree::into_vec, the ordered export
btree_into_vec(root) == into_vec(root)

\* insert(key, ValueOf(key)) is called on the index
IndexInsert(key) ==
    /\ LET r == btree_insert(tree, key, ValueOf(key), T)
       IN  /\ tree' = r.root
           /\ result' = r.result
           /\ inserted' = IF r.result = "Ok" THEN inserted \cup {key} ELSE inserted
    /\ call' = "insert"
    /\ UNCHANGED <<cap, vertices, trav, topo, path>>

\* the ordered export is taken
IndexExport ==
    /\ result' = btree_into_vec(tree)
    /\ call' = "into_vec"
    /\ UNCHANGED <<cap, vertices, trav, topo, tree, inserted, path>>

InitIndex ==
    /\ cap = "WithOutgoing"
    /\ vertices = <<>>
    /\ result = "Ok"
    /\ call = "none"
    /\ trav = Idle
    /\ topo = Idle
    /\ tree = Leaf(<<>>)
    /\ inserted = {}
    /\ path = <<>>

NextIndex ==
    \/ \E key \in Keys : IndexInsert(key)
    \/ IndexExport

SpecIndex == InitIndex /\ [][NextIndex]_vars

\* the pairs of the keys of S in ascending key order
RECURSIVE SortedPairs(_)
SortedPairs(S) ==
    IF S = {} THEN <<>>
    ELSE LET m == CHOOSE k \in S : \A j \in S : j >= k
         IN  <<<<m, ValueOf(m)>>>> \o SortedPairs(S \ {m})

\* every node of the tree below and including node, with its depth
RECURSIVE Nodes(_, _)
Nodes(node, depth) ==
    {[node |-> node, depth |-> depth]} \cup
        IF node.type = "Internal"
            THEN UNION {Nodes(node.children[i], depth + 1) : i \in 1..Len(node.children)}
            ELSE {}

\* C9: whatever the order in which unique keys were inserted, the ordered export
\* gives exactly the inserted pairs, each once, in ascending key order.
C9_ExportSorted ==
    call = "into_vec" => result = SortedPairs(inserted)

\* an export has been taken of a tree of three levels
C9_Witness ==
    /\ call = "into_vec"
    /\ \E n \in Nodes(tree, 0) : n.depth = 2
    /\ Len(result) = MaxKey

\* C10: after any insertions no node holds more than 2t-1 pairs, every node but
\* the root holds at least t-1, and an internal node has one more child than pairs.
C10_NodeSizes ==
    \A n \in Nodes(tree, 0) :
        /\ n.node.type \in {"Leaf", "Internal"}
        /\ Len(n.node.pairs) <= 2 * T - 1
        /\ n.depth > 0 => Len(n.node.pairs) >= T - 1
        /\ n.node.type = "Internal" => Len(n.node.children) = Len(n.node.pairs) + 1

\* the tree has three levels: a leaf and an internal node have been split
C10_Witness ==
    /\ \E n \in Nodes(tree, 0) : n.depth = 2
    /\ \E n \in Nodes(tree, 0) : n.depth = 1 /\ n.node.type = "Internal"
                                    /\ Len(n.node.pairs) = 2

\* C11: inserting a key that is present anywhere in the index fails with
\* KeyAlreadyExists and leaves the tree as it was, whatever the value given; so
\* does Node::insert with a pair whose key the internal node already holds.
C11_DuplicateKey ==
    /\ \A k \in inserted : \A v \in {ValueOf(k), <<"other", k>>} :
            LET r == btree_insert(tree, k, v, T)
            IN  r.result = "KeyAlreadyExists" /\ r.root = tree
    /\ \A n \in Nodes(tree, 0) :
            n.node.type = "Internal" =>
                \A i \in 1..Len(n.node.pairs) :
                    node_insert(n.node, KeyValue(n.node.pairs[i].key, <<"other", i>>),
                                Leaf(<<>>))
                        = [result |-> "KeyAlreadyExists", node |-> n.node]
    /\ (call = "insert" /\ result = "KeyAlreadyExists") =>
            /\ inserted # {}
            /\ btree_into_vec(tree) = SortedPairs(inserted)

\* an insertion of a present key was refused by a tree of three levels that
\* holds keys in internal nodes and in leaves
C11_Witness ==
    /\ call = "insert"
    /\ result = "KeyAlreadyExists"
    /\ \E n \in Nodes(tree, 0) : n.depth = 2

\* ------------------------------------------------------------- cycle queries
\* a mutant: only the vertex's own edges are looked at
is_in_cycle_own_edges(vs, self_id) ==
    [result |-> "Ok",
     value |-> \E i \in 1..Len(OutList(vs[self_id])) : OutList(vs[self_id])[i].end = self_id]

\* Vertex::is_in_cycle: the while loop over the queue, from the queue and the
\* discovered list it has got to.  A vertex already discovered is skipped; of a
\* vertex with an outgoing list the edges are walked in order: an edge that ends
\* at self returns true, any other puts its end on the queue and the current id
\* on discovered; a vertex with an Ingoing vicinity panics.
RECURSIVE is_in_cycle_loop(_, _, _, _)
is_in_cycle_loop(vs, self_id, queue, discovered) ==
    IF queue = <<>> THEN [result |-> "Ok", value |-> FALSE]
    ELSE LET current == vs[Head(queue)]
             vic     == current.vicinity
         IN  IF SeqContains(discovered, current.id)
                THEN is_in_cycle_loop(vs, self_id, Tail(queue), discovered)
             ELSE IF vic.shape = "Ingoing" THEN [result |-> "Panic"]
             ELSE LET opt == IF vic.shape = "Outgoing" THEN vic.edges ELSE vic.outgoing_edges
                  IN  IF ~IsSome(opt)
                        THEN is_in_cycle_loop(vs, self_id, Tail(queue), discovered)
                      ELSE LET edges == Unwrap(opt)
                           IN  IF \E i \in 1..Len(edges) : edges[i].end = self_id
                                 THEN [result |-> "Ok", value |-> TRUE]
                               ELSE is_in_cycle_loop(vs, self_id,
                                        Tail(queue) \o pushed_ids(edges),
                                        discovered \o [i \in 1..Len(edges) |-> current.id])

\* Vertex::is_in_cycle on the vertex self_id of the index
is_in_cycle(vs, self_id) == is_in_cycle_loop(vs, self_id, <<self_id>>, <<>>)

\* a mutant: only the first vertex of the export is asked
is_acyclic_first_only(vs) ==
    IF DOMAIN vs = {} THEN [result |-> "Ok", value |-> TRUE]
    ELSE LET m == CHOOSE k \in DOMAIN vs : \A j \in DOMAIN vs : k <= j
             r == is_in_cycle(vs, m)
         IN  IF r.result # "Ok" THEN r ELSE [result |-> "Ok", value |-> ~r.value]

\* Graph::is_acyclic (WithOutgoing): the vertices of the ordered export are asked
\* in turn, the first that is in a cycle returns false
is_acyclic(vs) ==
    LET RECURSIVE Ask(_)
        Ask(S) ==
            IF S = {} THEN [result |-> "Ok", value |-> TRUE]
            ELSE LET m == CHOOSE k \in S : \A j \in S : k <= j
                     r == is_in_cycle(vs, m)
                 IN  IF r.result # "Ok" THEN r
                     ELSE IF r.value THEN [result |-> "Ok", value |-> FALSE]
                     ELSE Ask(S \ {m})
    IN  Ask(DOMAIN vs)

\* C13: in a graph that records outgoing edges, is_in_cycle of a vertex is true
\* exactly when a walk of one or more outgoing edges leads from the vertex back
\* to it: false for a vertex that only reaches a cycle, false in a graph
\* without cycles.
C13_IsInCycle ==
    cap \in {"WithOutgoing", "WithBoth"} =>
        \A id \in DOMAIN vertices :
            is_in_cycle(vertices, id)
                = [result |-> "Ok", value |-> id \in ReachablePlus(vertices, id)]

\* the graph holds a vertex on a cycle and a vertex that reaches the cycle
\* without being on one
C13_Witness ==
    /\ cap \in {"WithOutgoing", "WithBoth"}
    /\ \E u, v \in DOMAIN vertices :
        /\ u \in ReachablePlus(vertices, u) /\ is_in_cycle(vertices, u).value
        /\ v \notin ReachablePlus(vertices, v) /\ u \in ReachablePlus(vertices, v)
        /\ ~is_in_cycle(vertices, v).value

\* C14: is_acyclic of a WithOutgoing graph is true exactly when the graph holds
\* no directed cycle, that is when is_in_cycle is false for every stored vertex.
C14_IsAcyclic ==
    cap = "WithOutgoing" =>
        /\ is_acyclic(vertices).result = "Ok"
        /\ is_acyclic(vertices).value
            = (\A id \in DOMAIN vertices : id \notin ReachablePlus(vertices, id))
        /\ is_acyclic(vertices).value
            = (\A id \in DOMAIN vertices : ~is_in_cycle(vertices, id).value)

\* a WithOutgoing graph whose smallest vertex is on no cycle holds a cycle, and
\* is_acyclic says so
C14_Witness ==
    /\ cap = "WithOutgoing"
    /\ 1 \in DOMAIN vertices /\ 1 \notin ReachablePlus(vertices, 1)
    /\ \E id \in DOMAIN vertices : id \in ReachablePlus(vertices, id)
    /\ ~is_acyclic(vertices).value

\* ------------------------------------------------------------- path algebra
\* Path(Vec<Edge>): a sequence of edges; Paths(Vec<Path>): a sequence of paths.
\* The edges a graph can hold: add_edge builds none from a vertex to itself.
PathEdges ==
    {e \in {NewEdge(info, start, end) : info \in EInfos, start \in Ids, end \in Ids} :
        e.start # e.end}

\* the walks of 1..n edges: every edge starts where the one before it ends
RECURSIVE Walks(_)
Walks(n) ==
    IF n = 1 THEN {<<e>> : e \in PathEdges}
    ELSE LET W == Walks(n - 1)
         IN  W \cup UNION {{Append(w, e) : e \in {f \in PathEdges : f.start = w[Len(w)].end}}
                            : w \in {x \in W : Len(x) = n - 1}}

\* every edge of p starts where the one before it ends
IsWalk(p) == \A i \in 1..(Len(p) - 1) : p[i].end = p[i + 1].start

\* the operands of Path + and of subpath_between
PathInputs == {<<>>} \cup Walks(MaxPathLen)

\* the entries of the operands of Paths +: the walks of one or two edges that
\* leave vertex 1
ShortWalks == {w \in PathInputs : Len(w) \in 1..2 /\ w[1].start = 1}

\* the operands of Paths +: up to two paths
PathsInputs == {<<>>} \cup {<<p>> : p \in ShortWalks}
                    \cup {<<p, q>> : p \in ShortWalks, q \in ShortWalks}

\* Path::start_with: self.0.get(0).expect(..).get_start_id()
start_with(p) == IF p = <<>> THEN "Panic" ELSE p[1].start

\* Path::ends_with: self.0.get(0).expect(..).get_end_id()
ends_with(p) == IF p = <<>> THEN "Panic" ELSE p[1].end

\* let other_start = rhs.0.last(): the edge of rhs whose start is compared
other_start_edge(rhs) == rhs[Len(rhs)]

\* a mutant: every pair of non-empty paths is joined
path_add_always(lhs, rhs) ==
    IF lhs = <<>> THEN rhs ELSE lhs \o rhs

\* impl Add for Path
path_add(lhs, rhs) ==
    IF lhs = <<>> THEN rhs
    ELSE IF rhs = <<>> THEN lhs
    ELSE IF lhs[Len(lhs)].end = other_start_edge(rhs).start THEN lhs \o rhs
    ELSE lhs

\* a mutant: the product runs with the right index outermost
paths_add_right_outermost(lhs, rhs) ==
    IF lhs = <<>> THEN rhs
    ELSE IF rhs = <<>> THEN lhs
    ELSE [k \in 1..(Len(lhs) * Len(rhs)) |->
            path_add(lhs[((k - 1) % Len(lhs)) + 1], rhs[((k - 1) \div Len(lhs)) + 1])]

\* impl Add for Paths: iproduct!(self.0, rhs.0) folded with Path +
paths_add(lhs, rhs) ==
    IF lhs = <<>> THEN rhs
    ELSE IF rhs = <<>> THEN lhs
    ELSE [k \in 1..(Len(lhs) * Len(rhs)) |->
            path_add(lhs[((k - 1) \div Len(rhs)) + 1], rhs[((k - 1) % Len(rhs)) + 1])]

\* the for loop of subpath_between, for one of the two ends: found, and the index
\* (counted from 0) of the last edge among hits, the places (counted from 1) of
\* the edges that match; 0 when there is none
scan(hits) ==
    [found |-> hits # {},
     index |-> IF hits = {} THEN 0
               ELSE (CHOOSE i \in hits : \A j \in hits : j <= i) - 1]

\* Path::subpath_between(start, end); edges[a..=b] panics when a > b + 1
subpath_between(p, start, end) ==
    IF p = <<>> THEN [result |-> "KeyWasNotFound"]
    ELSE IF start_with(p) = start /\ ends_with(p) = end THEN [result |-> "Ok", path |-> p]
    ELSE LET s == scan({i \in 1..Len(p) : p[i].start = start})
             e == scan({i \in 1..Len(p) : p[i].end = end})
         IN  IF s.found /\ e.found THEN
                IF s.index > e.index + 1 THEN [result |-> "Panic"]
                ELSE [result |-> "Ok", path |-> SubSeq(p, s.index + 1, e.index + 1)]
             ELSE [result |-> "KeyWasNotFound"]

\* lhs + rhs on two paths
PathAdd(lhs, rhs) ==
    /\ path = <<>>
    /\ path' = [op |-> "path_add", lhs |-> lhs, rhs |-> rhs, result |-> path_add(lhs, rhs)]
    /\ UNCHANGED <<cap, vertices, result, call, trav, topo, tree, inserted>>

\* lhs + rhs on two path lists
PathsAdd(lhs, rhs) ==
    /\ path = <<>>
    /\ path' = [op |-> "paths_add", lhs |-> lhs, rhs |-> rhs, result |-> paths_add(lhs, rhs)]
    /\ UNCHANGED <<cap, vertices, result, call, trav, topo, tree, inserted>>

\* p.subpath_between(start, end)
SubpathBetween(p, start, end) ==
    /\ path = <<>>
    /\ path' = [op |-> "subpath_between", lhs |-> p, start |-> start, end |-> end,
                result |-> subpath_between(p, start, end)]
    /\ UNCHANGED <<cap, vertices, result, call, trav, topo, tree, inserted>>

\* the operands of a sum of three path lists, as create_paths makes them: up to
\* two paths of one edge each, the two edges of a list starting at the same vertex
EdgePathsInputs ==
    {<<>>} \cup {<<(<<e>>)>> : e \in PathEdges}
           \cup {<<(<<p[1]>>), (<<p[2]>>)>> :
                    p \in {q \in PathEdges \X PathEdges :
                                q[1].start = q[2].start /\ q[1] # q[2]}}

\* a + b + c on three path lists, summed from the left and from the right
PathsAddThree(a, b, c) ==
    /\ path = <<>>
    /\ path' = [op |-> "paths_add_three", a |-> a, b |-> b, c |-> c,
                left |-> paths_add(paths_add(a, b), c),
                right |-> paths_add(a, paths_add(b, c))]
    /\ UNCHANGED <<cap, vertices, result, call, trav, topo, tree, inserted>>

InitPath ==
    /\ cap = "WithOutgoing"
    /\ InitGraph

NextPath ==
    \/ \E lhs \in PathInputs, rhs \in PathInputs : PathAdd(lhs, rhs)
    \/ \E lhs \in PathsInputs, rhs \in PathsInputs : PathsAdd(lhs, rhs)
    \/ \E p \in PathInputs, start \in Ids, end \in Ids : SubpathBetween(p, start, end)
    \/ \E a \in EdgePathsInputs, b \in EdgePathsInputs, c \in EdgePathsInputs :
            PathsAddThree(a, b, c)

SpecPath == InitPath /\ [][NextPath]_vars

\* a call of op has returned
Called(op) == path # <<>> /\ path.op = op

\* the end of the left path's last edge is the start of the right path's first
Adjacent(lhs, rhs) == lhs[Len(lhs)].end = rhs[1].start

\* C15: for non-empty paths L and R of any length, when L's last edge ends
\* where R's first edge starts, L + R is the edges of L followed by those of R.
C15_PathAddJoinsAdjacent ==
    (Called("path_add") /\ path.lhs # <<>> /\ path.rhs # <<>>
        /\ Adjacent(path.lhs, path.rhs))
    => path.result = path.lhs \o path.rhs

\* C16: Path + joins only adjacent operands: for non-empty paths that are not
\* adjacent the result is the left operand, and the sum of two walks is a walk.
C16_PathAddOnlyAdjacent ==
    (Called("path_add") /\ path.lhs # <<>> /\ path.rhs # <<>>)
    => /\ ~Adjacent(path.lhs, path.rhs) => path.result = path.lhs
       /\ (IsWalk(path.lhs) /\ IsWalk(path.rhs)) => IsWalk(path.result)

\* C17: for path lists L and R, L + R is R when L is empty and L when R is
\* empty; otherwise it has |L|*|R| entries, the entry of the pair (i, j) being
\* L[i] + R[j], with the left index outermost.
C17_PathsAddProduct ==
    Called("paths_add")
    => LET L == path.lhs
           R == path.rhs
       IN  /\ L = <<>> => path.result = R
           /\ R = <<>> => path.result = L
           /\ (L # <<>> /\ R # <<>>) =>
                /\ Len(path.result) = Len(L) * Len(R)
                /\ \A i \in 1..Len(L) : \A j \in 1..Len(R) :
                        path.result[(i - 1) * Len(R) + j] = path_add(L[i], R[j])

\* two lists of two paths each were added; among the four sums one is a join
\* and one is the left path alone, and the two left paths differ, as do the right
C17_Witness ==
    /\ Called("paths_add")
    /\ Len(path.lhs) = 2 /\ Len(path.rhs) = 2
    /\ path.lhs[1] # path.lhs[2] /\ path.rhs[1] # path.rhs[2]
    /\ \E k \in 1..4 : Len(path.result[k]) = 4
    /\ \E k \in 1..4 : path.result[k] \in {path.lhs[1], path.lhs[2]}

\* C18: subpath_between(start_id, end_id) never aborts; when the path has an
\* edge that starts at start_id and an edge that ends at end_id it returns the
\* edges from the first edge starting at start_id to the first edge ending at
\* end_id, a path that starts at start_id and ends at end_id; otherwise it
\* fails with KeyWasNotFound.
C18_SubpathBetween ==
    Called("subpath_between")
    => LET p  == path.lhs
           fs == {i \in 1..Len(p) : p[i].start = path.start}
           fe == {i \in 1..Len(p) : p[i].end = path.end}
           s1 == CHOOSE i \in fs : \A j \in fs : i <= j
           e1 == CHOOSE i \in fe : \A j \in fe : i <= j
       IN  /\ path.result.result # "Panic"
           /\ IF fs # {} /\ fe # {}
                THEN /\ path.result.result = "Ok"
                     /\ path.result.path = SubSeq(p, s1, e1)
                     /\ path.result.path # <<>>
                     /\ path.result.path[1].start = path.start
                     /\ path.result.path[Len(path.result.path)].end = path.end
                ELSE path.result.result = "KeyWasNotFound"

\* ------------------------------------------------------------- paths of a graph
\* create_paths, the per-vertex function of all_paths_from: one single-edge path
\* for every outgoing edge of the vertex; it panics on an Ingoing vicinity
create_paths(v) ==
    IF v.vicinity.shape = "Ingoing" THEN [result |-> "Panic"]
    ELSE LET opt == IF v.vicinity.shape = "Outgoing" THEN v.vicinity.edges
                    ELSE v.vicinity.outgoing_edges
         IN  [result |-> "Ok",
              paths |-> IF IsSome(opt) THEN [i \in 1..Len(Unwrap(opt)) |-> <<Unwrap(opt)[i]>>]
                        ELSE <<>>]

\* all_paths_from(id): breadth_first_traversal with an empty Paths as the
\* accumulator, acc = acc + create_paths(vertex) at every vertex visited
all_paths_from(c, vs, id) ==
    LET t == traversal(c, vs, "bfs", id)
        RECURSIVE Acc(_)
        Acc(n) == IF n = 0 THEN <<>>
                  ELSE paths_add(Acc(n - 1), create_paths(vs[t.acc[n]]).paths)
    IN  IF \E i \in 1..Len(t.acc) : create_paths(vs[t.acc[i]]).result = "Panic"
            THEN [result |-> "Panic"]
        ELSE IF t.result # "Ok" THEN [result |-> t.result]
        ELSE [result |-> "Ok", paths |-> Acc(Len(t.acc))]

\* the paths of a list that subpath_between(start, end) returns Ok for, cut by it
RECURSIVE filter_map_subpath(_, _, _)
filter_map_subpath(paths, start, end) ==
    IF paths = <<>> THEN <<>>
    ELSE LET r == subpath_between(Head(paths), start, end)
         IN  (IF r.result = "Ok" THEN <<r.path>> ELSE <<>>)
                \o filter_map_subpath(Tail(paths), start, end)

\* all_paths_between(start, end): None when all_paths_from fails or no path is
\* kept, otherwise Some of the kept paths
all_paths_between(c, vs, start, end) ==
    LET from == all_paths_from(c, vs, start)
    IN  IF from.result = "Panic" THEN [result |-> "Panic"]
        ELSE IF from.result # "Ok" THEN [result |-> "None"]
        ELSE IF \E i \in 1..Len(from.paths) :
                    subpath_between(from.paths[i], start, end).result = "Panic"
            THEN [result |-> "Panic"]
        ELSE LET paths_between == filter_map_subpath(from.paths, start, end)
             IN  IF paths_between = <<>> THEN [result |-> "None"]
                 ELSE [result |-> "Some", paths |-> paths_between]

\* C19: every path all_paths_between(start_id, end_id) returns has its first
\* edge starting at start_id and its last edge ending at end_id, and the result
\* is None when all_paths_from(start_id) holds no path from start_id to end_id.
C19_AllPathsBetweenEnds ==
    cap \in {"WithOutgoing", "WithBoth"} =>
        \A start \in DOMAIN vertices, end \in DOMAIN vertices :
            LET r    == all_paths_between(cap, vertices, start, end)
                from == all_paths_from(cap, vertices, start)
            IN  /\ r.result \in {"Some", "None"}
                /\ r.result = "Some" =>
                    \A i \in 1..Len(r.paths) :
                        /\ r.paths[i] # <<>>
                        /\ r.paths[i][1].start = start
                        /\ r.paths[i][Len(r.paths[i])].end = end
                /\ (from.result = "Ok"
                        /\ \A i \in 1..Len(from.paths) :
                            ~(from.paths[i][1].start = start
                                /\ from.paths[i][Len(from.paths[i])].end = end))
                    => r.result = "None"

\* ------------------------------------------------------------- one index node
\* the pairs of the keys of S in ascending key order
RECURSIVE SortedKeyValues(_)
SortedKeyValues(S) ==
    IF S = {} THEN <<>>
    ELSE LET m == CHOOSE k \in S : \A j \in S : k <= j
         IN  <<KeyValue(m, ValueOf(m))>> \o SortedKeyValues(S \ {m})

\* NodeType::Leaf of up to 2t pairs
LeafInputs ==
    {Leaf(SortedKeyValues(S)) : S \in {X \in SUBSET Keys : Cardinality(X) <= 2 * T}}

\* NodeType::Internal of up to 2t-1 pairs, with a one-pair leaf below every
\* pair and one above the last
InternalInputs ==
    LET Even == {k \in Keys : k % 2 = 0 /\ k < MaxKey}
        Children(pairs) ==
            [i \in 1..(Len(pairs) + 1) |->
                IF i <= Len(pairs) THEN Leaf(SortedKeyValues({pairs[i].key - 1}))
                ELSE Leaf(SortedKeyValues({pairs[Len(pairs)].key + 1}))]
    IN  {Internal(SortedKeyValues(S), Children(SortedKeyValues(S)))
            : S \in {X \in SUBSET Even : Cardinality(X) \in 1..(2 * T - 1)}}

\* the nodes the operations are applied to: Node::new of each NodeType
NodeInputs == {Undefined} \cup LeafInputs \cup InternalInputs

\* node.split(t): what it returns and the node as it is left
NodeSplit ==
    /\ call = "none"
    /\ result' = split(tree, T)
    /\ call' = "split"
    /\ UNCHANGED <<cap, vertices, trav, topo, tree, inserted, path>>

\* node.is_full(t)
NodeIsFull ==
    /\ call = "none"
    /\ result' = is_full(tree, T)
    /\ call' = "is_full"
    /\ UNCHANGED <<cap, vertices, trav, topo, tree, inserted, path>>

\* node.insert(pair, child) with an empty leaf as the child
NodeInsert(key) ==
    /\ call = "none"
    /\ result' = node_insert(tree, KeyValue(key, ValueOf(key)), Leaf(<<>>))
    /\ call' = "node_insert"
    /\ UNCHANGED <<cap, vertices, trav, topo, tree, inserted, path>>

\* node.into_vec(): the export, or the panic of its Undefined arm
NodeIntoVec ==
    /\ call = "none"
    /\ result' = IF into_vec(tree) = <<"Panic">> THEN [result |-> "Panic"]
                 ELSE [result |-> "Ok", value |-> into_vec(tree)]
    /\ call' = "node_into_vec"
    /\ UNCHANGED <<cap, vertices, trav, topo, tree, inserted, path>>

InitNode ==
    /\ cap = "WithOutgoing"
    /\ vertices = <<>>
    /\ result = "Ok"
    /\ call = "none"
    /\ trav = Idle
    /\ topo = Idle
    /\ tree \in NodeInputs
    /\ inserted = {}
    /\ path = <<>>

NextNode ==
    \/ NodeSplit
    \/ NodeIsFull
    \/ \E key \in Keys : NodeInsert(key)
    \/ NodeIntoVec

SpecNode == InitNode /\ [][NextNode]_vars

\* C20: split, is_full, insert of a pair and a child, and the ordered export,
\* applied to a node in the Undefined state, each return UnexpectedError.
C20_UndefinedNodeFails ==
    (tree = Undefined /\ call \in {"split", "is_full", "node_insert", "node_into_vec"})
    => result.result = "UnexpectedError"

\* the node holds 2t-1 pairs and, when it is internal, 2t children
FullNode(node, t) ==
    /\ node.type \in {"Leaf", "Internal"}
    /\ Len(node.pairs) = 2 * t - 1
    /\ node.type = "Internal" => Len(node.children) = 2 * t

\* C21: the split of a full node with minimum degree t returns the pair that
\* was at index t-1 as the median, leaves the node the t-1 pairs below it and
\* gives the sibling the t-1 pairs above it in their order; of an internal node
\* the first t children stay and the last t go to the sibling, so that each
\* half has one more child than pairs.
C21_SplitHalves ==
    (call = "split" /\ FullNode(tree, T))
    => /\ result.result = "Ok"
       /\ result.pair = tree.pairs[T]
       /\ result.node.type = tree.type /\ result.new_node.type = tree.type
       /\ result.node.pairs = SubSeq(tree.pairs, 1, T - 1)
       /\ result.new_node.pairs = SubSeq(tree.pairs, T + 1, 2 * T - 1)
       /\ tree.type = "Internal" =>
            /\ result.node.children = SubSeq(tree.children, 1, T)
            /\ result.new_node.children = SubSeq(tree.children, T + 1, 2 * T)
            /\ Len(result.node.children) = Len(result.node.pairs) + 1
            /\ Len(result.new_node.children) = Len(result.new_node.pairs) + 1

\* a full internal node has been split
C21_Witness ==
    /\ call = "split"
    /\ FullNode(tree, T)
    /\ tree.type = "Internal"
    /\ result.result = "Ok"

\* ------------------------------------------------------------- marks of the topological sort
\* the mark the sort t holds for id; a vertex without a mark yet is Unmarked
MarkOf(t, id) ==
    IF t.pc = "idle" THEN "Unmarked"
    ELSE IF \E i \in 1..Len(t.marks) : t.marks[i].id = id
        THEN t.marks[mark_pos(t.marks, id)].mark
        ELSE "Unmarked"

\* the result of the sort so far
DepsOf(t) == IF t.pc = "idle" THEN <<>> ELSE t.dependencies

\* while the sort runs, and when it has returned Ok: the Temporary vertices are
\* the vertices of the active visit_node calls, and the result holds the
\* Permanent vertices, each once
MarksAndResult ==
    (topo.pc = "run" \/ (topo.pc = "done" /\ topo.result = "Ok"))
    => /\ {id \in Ids : MarkOf(topo, id) = "Temporary"}
            = {topo.stack[i].id : i \in 1..Len(topo.stack)}
       /\ \A i, j \in 1..Len(topo.stack) : topo.stack[i].id = topo.stack[j].id => i = j
       /\ \A id \in Ids :
            Count(topo.dependencies, id) = IF MarkOf(topo, id) = "Permanent" THEN 1 ELSE 0

\* a vertex id is put at the front of the result exactly in the step in which
\* its mark becomes Permanent
PrependedWhenPermanent ==
    /\ \A id \in Ids :
        (MarkOf(topo, id) # "Permanent" /\ MarkOf(topo', id) = "Permanent")
            => DepsOf(topo') = <<id>> \o DepsOf(topo)
    /\ DepsOf(topo') # DepsOf(topo)
        => \E id \in Ids : MarkOf(topo, id) # "Permanent" /\ MarkOf(topo', id) = "Permanent"

\* C22 (as claimed): during topological_sort a mark only moves from Unmarked to
\* Temporary and from Temporary to Permanent; the Temporary vertices are those
\* on the recursion path; an id is prepended to the result exactly when its
\* mark becomes Permanent, so the result holds the Permanent vertices once each.
C22_MarksStepwise ==
    /\ []MarksAndResult
    /\ [][/\ PrependedWhenPermanent
          /\ \A id \in Ids :
                MarkOf(topo', id) # MarkOf(topo, id)
                    => <<MarkOf(topo, id), MarkOf(topo', id)>>
                        \in {<<"Unmarked", "Temporary">>, <<"Temporary", "Permanent">>}]_vars

\* C22 (amended): during topological_sort a mark never moves backwards: it moves
\* from Unmarked to Temporary and from Temporary to Permanent when the vertex
\* has an edge list, and from Unmarked straight to Permanent when it has none;
\* the Temporary vertices are those on the recursion path; an id is prepended to
\* the result exactly when its mark becomes Permanent, so the result holds the
\* Permanent vertices once each.
C22_MarksForward ==
    /\ []MarksAndResult
    /\ [][/\ PrependedWhenPermanent
          /\ \A id \in Ids :
                MarkOf(topo', id) # MarkOf(topo, id)
                    => \/ <<MarkOf(topo, id), MarkOf(topo', id)>>
                            \in {<<"Unmarked", "Temporary">>, <<"Temporary", "Permanent">>}
                       \/ /\ <<MarkOf(topo, id), MarkOf(topo', id)>>
                                = <<"Unmarked", "Permanent">>
                          /\ id \in DOMAIN vertices
                          /\ ~IsSome(vertices[id].vicinity.edges)]_vars

\* the sort is two calls deep, below two Temporary vertices, and has made a
\* vertex without an edge list Permanent
C22_Witness ==
    /\ topo.pc = "run"
    /\ Len(topo.stack) = 2
    /\ \E id \in DOMAIN vertices :
        /\ MarkOf(topo, id) = "Permanent"
        /\ ~IsSome(vertices[id].vicinity.edges)
        /\ topo.dependencies = <<id>>

\* ------------------------------------------------------------- the algorithms, step by step
\* one turn of the while loop of a traversal: the loop ends with Ok(acc) when
\* the frontier is empty, otherwise the body runs once
traversal_turn(c, vs, t) ==
    IF t.frontier = <<>> THEN [t EXCEPT !.pc = "done", !.result = "Ok"]
    ELSE [traversal_iteration(c, vs, t) EXCEPT !.iterations = @ + 1]

\* a mutant: a vertex that is already discovered stays at the head of the queue
is_in_cycle_turn_keeps_entry(vs, t) ==
    IF t.frontier = <<>> THEN [t EXCEPT !.pc = "done", !.result = "Ok", !.value = FALSE]
    ELSE LET current == vs[Head(t.frontier)]
             opt     == IF current.vicinity.shape = "Outgoing" THEN current.vicinity.edges
                        ELSE current.vicinity.outgoing_edges
         IN  IF SeqContains(t.discovered, current.id) THEN t
             ELSE IF ~IsSome(opt) THEN [t EXCEPT !.frontier = Tail(@)]
             ELSE IF \E i \in 1..Len(Unwrap(opt)) : Unwrap(opt)[i].end = t.start
                THEN [t EXCEPT !.pc = "done", !.result = "Ok", !.value = TRUE]
             ELSE [t EXCEPT !.frontier = Tail(@) \o pushed_ids(Unwrap(opt)),
                            !.discovered = @ \o [i \in 1..Len(Unwrap(opt)) |-> current.id]]

\* one turn of the while loop of Vertex::is_in_cycle, t holding its queue and
\* its discovered list: false when the queue is empty, otherwise the body
is_in_cycle_turn(vs, t) ==
    IF t.frontier = <<>> THEN [t EXCEPT !.pc = "done", !.result = "Ok", !.value = FALSE]
    ELSE LET current == vs[Head(t.frontier)]
             vic     == current.vicinity
             opt     == IF vic.shape = "Outgoing" THEN vic.edges ELSE vic.outgoing_edges
         IN  IF SeqContains(t.discovered, current.id) THEN [t EXCEPT !.frontier = Tail(@)]
             ELSE IF vic.shape = "Ingoing" THEN [t EXCEPT !.pc = "done", !.result = "Panic"]
             ELSE IF ~IsSome(opt) THEN [t EXCEPT !.frontier = Tail(@)]
             ELSE IF \E i \in 1..Len(Unwrap(opt)) : Unwrap(opt)[i].end = t.start
                THEN [t EXCEPT !.pc = "done", !.result = "Ok", !.value = TRUE]
             ELSE [t EXCEPT !.frontier = Tail(@) \o pushed_ids(Unwrap(opt)),
                            !.discovered = @ \o [i \in 1..Len(Unwrap(opt)) |-> current.id]]

\* depth_first_traversal / breadth_first_traversal(initial_id, ..) is called
WalkStart(kind, initial_id) ==
    /\ Running
    /\ cap \in {"WithOutgoing", "WithBoth"}
    /\ trav' = [pc |-> "run", kind |-> kind, start |-> initial_id,
                frontier |-> <<initial_id>>, discovered |-> <<>>,
                acc |-> <<>>, iterations |-> 0, result |-> "none"]
    /\ call' = "traversal"
    /\ UNCHANGED <<cap, vertices, result, topo, tree, inserted, path>>

\* the traversal's while loop takes a turn
WalkTurn ==
    /\ trav.pc = "run"
    /\ trav.kind \in TravKinds
    /\ trav' = traversal_turn(cap, vertices, trav)
    /\ UNCHANGED <<cap, vertices, result, call, topo, tree, inserted, path>>

\* is_in_cycle is called on the vertex self_id
CycleStart(self_id) ==
    /\ Running
    /\ cap \in {"WithOutgoing", "WithBoth"}
    /\ self_id \in DOMAIN vertices
    /\ trav' = [pc |-> "run", kind |-> "is_in_cycle", start |-> self_id,
                frontier |-> <<self_id>>, discovered |-> <<>>,
                result |-> "none", value |-> FALSE]
    /\ call' = "is_in_cycle"
    /\ UNCHANGED <<cap, vertices, result, topo, tree, inserted, path>>

\* the while loop of is_in_cycle takes a turn
CycleTurn ==
    /\ trav.pc = "run"
    /\ trav.kind = "is_in_cycle"
    /\ trav' = is_in_cycle_turn(vertices, trav)
    /\ UNCHANGED <<cap, vertices, result, call, topo, tree, inserted, path>>

InitTerm ==
    /\ cap \in Caps
    /\ InitGraph

NextTerm ==
    \/ \E id \in Ids : AddVertex(id, FreshInfo, EmptyVicinity(cap))
    \/ \E info \in EInfos, start \in Ids, end \in Ids : AddEdge(info, start, end)
    \/ \E kind \in TravKinds, id \in Ids : WalkStart(kind, id)
    \/ WalkTurn
    \/ \E id \in Ids : CycleStart(id)
    \/ CycleTurn
    \/ \E id \in Ids : TopoStart(id)
    \/ TopoTurn
    \/ TopoVisitEdge
    \/ TopoExitNode

\* a running algorithm goes on: the program is sequential and nothing stops it
SpecTerm ==
    /\ InitTerm /\ [][NextTerm]_vars
    /\ WF_vars(WalkTurn) /\ WF_vars(CycleTurn)
    /\ WF_vars(TopoTurn) /\ WF_vars(TopoVisitEdge) /\ WF_vars(TopoExitNode)

\* the graph holds two edges with the same start and end
ParallelEdges(vs) ==
    \E u \in DOMAIN vs : \E i, j \in 1..Len(OutList(vs[u])) :
        i # j /\ OutList(vs[u])[i].end = OutList(vs[u])[j].end

\* no vertex was expanded twice by the running or finished traversal
ExpandedOnce ==
    (trav.pc # "idle" /\ trav.kind \in TravKinds)
    => \A i, j \in 1..Len(trav.acc) : trav.acc[i] = trav.acc[j] => i = j

\* C23: on every graph, with cycles and with parallel edges, a depth-first or
\* breadth-first traversal, is_in_cycle and topological_sort, once called, come
\* to an end (a result or a returned error); a traversal expands no vertex twice.
C23_Terminates ==
    /\ []ExpandedOnce
    /\ (trav.pc = "run") ~> (trav.pc = "done")
    /\ (topo.pc = "run") ~> (topo.pc = "done")

\* a traversal has ended on a graph with a cycle and parallel edges, having
\* met discovered vertices again
C23_Witness ==
    /\ trav.pc = "done"
    /\ trav.kind \in TravKinds
    /\ trav.result = "Ok"
    /\ ParallelEdges(vertices)
    /\ trav.start \in ReachablePlus(vertices, trav.start)
    /\ trav.iterations > Len(trav.acc)

\* ---------------------------------------------------- all paths from a vertex
\* the ids and the number of edges of the graphs all_paths_from is called on: one
\* more of each, for two branches that meet again and go on
FromIds == 1..(MaxId + 1)

FromEdges == MaxEdges + 1

\* add_vertex before all_paths_from is called
FromAddVertex(id) ==
    /\ path = <<>>
    /\ AddVertex(id, FreshInfo, EmptyVicinity(cap))

\* add_edge before all_paths_from is called
FromAddEdge(info, start, end) ==
    /\ Running
    /\ path = <<>>
    /\ NumEdges(vertices) < FromEdges
    /\ LET r == add_edge(vertices, info, start, end)
       IN  /\ vertices' = r.vertices
           /\ result' = r.result
    /\ call' = "add_edge"
    /\ UNCHANGED <<cap, trav, topo, tree, inserted, path>>

\* one call of all_paths_from
AllPathsFrom(id) ==
    /\ Running
    /\ path = <<>>
    /\ LET r == all_paths_from(cap, vertices, id)
       IN  path' = [op |-> "all_paths_from", id |-> id, graph |-> vertices,
                    result |-> r.result,
                    paths |-> IF r.result = "Ok" THEN r.paths ELSE <<>>]
    /\ call' = "all_paths_from"
    /\ UNCHANGED <<cap, vertices, result, trav, topo, tree, inserted>>

InitFrom ==
    /\ cap = "WithOutgoing"
    /\ InitGraph

NextFrom ==
    \/ \E id \in FromIds : FromAddVertex(id)
    \/ \E info \in EInfos, start \in FromIds, end \in FromIds : FromAddEdge(info, start, end)
    \/ \E id \in FromIds : AllPathsFrom(id)

SpecFrom == InitFrom /\ [][NextFrom]_vars

\* no vertex lies on a directed cycle
Acyclic(vs) == \A u \in DOMAIN vs : u \notin ReachablePlus(vs, u)

\* the walks of 1..n edges of the graph that start at id
RECURSIVE WalksFrom(_, _, _)
WalksFrom(vs, id, n) ==
    IF n = 0 \/ id \notin DOMAIN vs THEN {}
    ELSE LET first == {OutList(vs[id])[i] : i \in 1..Len(OutList(vs[id]))}
         IN  {<<e>> : e \in first}
                \cup UNION {{<<e>> \o w : w \in WalksFrom(vs, e.end, n - 1)} : e \in first}

\* the walks from id that end at a vertex with no outgoing edge
MaximalPaths(vs, id) ==
    {w \in WalksFrom(vs, id, Cardinality(DOMAIN vs)) :
        w[Len(w)].end \in DOMAIN vs /\ OutList(vs[w[Len(w)].end]) = <<>>}

\* C24: in an acyclic graph the result of all_paths_from(id) holds every maximal
\* path from id: every walk that starts at id and ends at a vertex with no
\* outgoing edge, whatever the order the breadth-first walk visits the vertices in.
C24_AllMaximalPaths ==
    (Called("all_paths_from") /\ path.id \in DOMAIN path.graph /\ Acyclic(path.graph))
    => /\ path.result = "Ok"
       /\ \A w \in MaximalPaths(path.graph, path.id) : SeqContains(path.paths, w)

\* ------------------------------------------------- the two records of an edge
\* the number of edges start -> end in a list of edges
EdgesBetween(edges, start, end) ==
    Cardinality({i \in 1..Len(edges) : edges[i].start = start /\ edges[i].end = end})

\* C25: in a WithBoth graph whose vertices were added with no edge lists, after
\* any calls of add_vertex and add_edge, for every ordered pair (u, v) of vertices
\* u's outgoing list holds as many edges u -> v as v's ingoing list does.
C25_BothMirror ==
    cap = "WithBoth"
    => \A u \in DOMAIN vertices, v \in DOMAIN vertices :
            EdgesBetween(OutList(vertices[u]), u, v) = EdgesBetween(InList(vertices[v]), u, v)

\* a WithBoth graph with two parallel edges and an edge the other way
C25_Witness ==
    /\ cap = "WithBoth"
    /\ \E u \in DOMAIN vertices, v \in DOMAIN vertices :
        /\ EdgesBetween(OutList(vertices[u]), u, v) = 2
        /\ EdgesBetween(InList(vertices[u]), v, u) = 1

\* ------------------------------------------------------- stored edges resolve
\* every edge of an outgoing list starts at its vertex, every edge of an ingoing
\* list ends at its vertex, and both ends of every stored edge are in the index
StoredEdgesResolve(vs) ==
    \A u \in DOMAIN vs :
        /\ \A i \in 1..Len(OutList(vs[u])) :
            LET e == OutList(vs[u])[i]
            IN  e.start = u /\ contains(vs, e.start) /\ contains(vs, e.end)
        /\ \A i \in 1..Len(InList(vs[u])) :
            LET e == InList(vs[u])[i]
            IN  e.end = u /\ contains(vs, e.start) /\ contains(vs, e.end)

\* the errors of an id or an edge end that does not resolve
Unresolved == {"NullPointer", "KeyWasNotFound"}

C27_PathsAddAssociative ==
    Called("paths_add_three") => path.left = path.right

====
